---- MODULE Spec2Model ----
(***************************************************************************)
(* A model of htmlfeed.py, the rawdog plugin that rewrites a fetched HTML  *)
(* response into an RSS document.                                          *)
(*                                                                         *)
(* Python text is modelled as a sequence of tokens (a token stands for one *)
(* or more characters); the empty sequence is the empty string, the only   *)
(* falsy string.  Results of XPath evaluation are tagged records: None,    *)
(* a string, an element, or a list of strings and elements.                *)
(*                                                                         *)
(* Two specifications are given.  Spec follows one source's handler        *)
(* through construction, the transformation of its responses and the       *)
(* caller's use of the wrapper.  LockSpec follows several threads through  *)
(* the date section of the item loop, one bytecode-level step at a time,   *)
(* to study the process-wide locale and LOCALE_LOCK.                       *)
(***************************************************************************)
EXTENDS Integers, Sequences, FiniteSets, TLC

VARIABLES
    phase,      \* Spec: "new" | "registered" | "wrapped" | "failed"
    params,     \* Spec: HTML2RSSProcessor._params, the stripped overrides
    original,   \* Spec: the response the opener hands to _modifyResponse
    wrapper,    \* Spec: the ResponseWrapper built from it (fields "none" before)
    raised,     \* Spec: the exception that left _modifyResponse, or NoExc
    served,     \* Spec: number of responses handed to this handler so far
    compiles,   \* Spec: number of times the XPath compile loop has run
    rss,        \* Spec: the tree _parse built for the wrapped response
    origin,     \* Spec: the step of _parse whose exception ended it, or ""
    lock,       \* LockSpec: holder of LOCALE_LOCK, 0 when free
    loc,        \* LockSpec: the process-wide LC_ALL locale
    loc0,       \* LockSpec: the process-wide locale before any thread ran
    pc,         \* LockSpec: each thread's position in the date section
    saved,      \* LockSpec: each thread's local `saved` in setlocale
    job,        \* LockSpec: each thread's configuration and current date text
    dateobj,    \* LockSpec: each thread's parsed date (NoDate for None)
    ranUnder,   \* LockSpec: the locale each thread's last body ran under
    left        \* LockSpec: items each thread has still to process

pvars == <<phase, params, original, wrapper, raised, served, compiles, rss, origin>>
lvars == <<lock, loc, loc0, pc, saved, job, dateobj, ranUnder, left>>
vars == <<pvars, lvars>>

(***************************************************************************)
(* Bounds of the model.                                                    *)
(***************************************************************************)
MaxItems == 2
MaxResponses == 2
NThreads == 2
MaxDates == 1

(***************************************************************************)
(* Text helpers.                                                           *)
(***************************************************************************)
Empty == << >>

RECURSIVE Join(_)
Join(ss) == IF ss = << >> THEN Empty ELSE Head(ss) \o Join(Tail(ss))

Range(s) == {s[i] : i \in 1..Len(s)}

(* str(n) for a non-negative integer: its decimal digits. *)
Digit(n) == <<"0", "1", "2", "3", "4", "5", "6", "7", "8", "9">>[n + 1]

RECURSIVE str(_)
str(n) == IF n < 10 THEN <<Digit(n)>> ELSE str(n \div 10) \o <<Digit(n % 10)>>

(***************************************************************************)
(* XPath results.                                                          *)
(***************************************************************************)
VNone == [t |-> "None"]
VStr(s) == [t |-> "Str", s |-> s]
VElem(hasText, text, kids) ==
    [t |-> "Elem", hasText |-> hasText, text |-> text, kids |-> kids]
VList(items) == [t |-> "List", items |-> items]

(* What a Python expression yields: a text, None, or a raised exception. *)
Ret(s) == [exc |-> "", isNone |-> FALSE, s |-> s]
RetNone == [exc |-> "", isNone |-> TRUE, s |-> Empty]
Raise(kind) == [exc |-> kind, isNone |-> FALSE, s |-> Empty]

(* u''.join(parts): a None among the parts is a TypeError; an exception   *)
(* raised while a part is computed passes through.                        *)
RECURSIVE JoinRets(_)
JoinRets(rs) ==
    IF rs = << >> THEN Ret(Empty)
    ELSE LET h == Head(rs)
             r == JoinRets(Tail(rs))
         IN  IF h.exc # "" THEN h
             ELSE IF h.isNone THEN Raise("TypeError")
             ELSE IF r.exc # "" THEN r
             ELSE Ret(h.s \o r.s)

RECURSIVE _textualize(_)
_textualize(value) ==
    CASE value.t = "None" -> Ret(Empty)
      [] value.t = "Str"  -> Ret(value.s)
      [] value.t = "Elem" -> IF value.hasText THEN Ret(value.text) ELSE RetNone
      [] value.t = "List" ->
            JoinRets([i \in 1..Len(value.items) |-> _textualize(value.items[i])])

(***************************************************************************)
(* Sanitizing and serializing markup (_import).  An element's children are *)
(* leaf elements Kid(tag, attrs, text, tail).                              *)
(***************************************************************************)
Kid(tag, attrs, text, tail) ==
    [tag |-> tag, attrs |-> attrs, text |-> text, tail |-> tail]

(* lxml.etree.strip_tags on the children of an element: a banned child is *)
(* unwrapped, its text and tail joining the tail of the sibling before it *)
(* (or the parent's text, which convert never serializes).                *)
RECURSIVE StripFrom(_, _, _)
StripFrom(done, todo, tags) ==
    IF todo = << >> THEN done
    ELSE LET k == Head(todo)
         IN  IF k.tag \in tags
             THEN IF done = << >>
                  THEN StripFrom(done, Tail(todo), tags)
                  ELSE StripFrom(
                         [done EXCEPT ![Len(done)].tail = @ \o k.text \o k.tail],
                         Tail(todo), tags)
             ELSE StripFrom(Append(done, k), Tail(todo), tags)

strip_tags(kids, tags) == StripFrom(<< >>, kids, tags)

strip_attributes(kids, attrs) ==
    [i \in 1..Len(kids) |->
        [kids[i] EXCEPT !.attrs = SelectSeq(@, LAMBDA a : a \notin attrs)]]

(* lxml.html.tostring(e, encoding='unicode') of a leaf child, tail included. *)
tostring(k) ==
    <<"<">> \o k.tag
        \o Join([i \in 1..Len(k.attrs) |-> <<" ">> \o k.attrs[i] \o <<"=''">>])
        \o <<">">> \o k.text \o <<"</">> \o k.tag \o <<">">> \o k.tail

convert(kids) == Join([i \in 1..Len(kids) |-> tostring(kids[i])])

RECURSIVE _import(_, _, _)
_import(value, striptags, stripattrs) ==
    CASE value.t = "None" -> Empty
      [] value.t = "Str"  -> value.s
      [] value.t = "Elem" ->
            LET k1 == IF striptags # << >>
                      THEN strip_tags(value.kids, Range(striptags))
                      ELSE value.kids
                k2 == IF stripattrs # << >>
                      THEN strip_attributes(k1, Range(stripattrs))
                      ELSE k1
            IN  convert(k2)
      [] value.t = "List" ->
            Join([i \in 1..Len(value.items) |->
                    _import(value.items[i], striptags, stripattrs)])

(***************************************************************************)
(* Dates.  A datetime is [y, m, d] at 00:00:00 with no tzinfo.  Only       *)
(* January and February are modelled.                                      *)
(***************************************************************************)
NoDate == [y |-> 0, m |-> 0, d |-> 0]
Months == 1..2
Days == 1..2
Years == {1900, 2024}
LC_C == <<"C">>
LC_RU == <<"ru_RU">>
LC_XX == <<"xx_XX">>
ValidLocales == {LC_C, LC_RU}

D2(n) == <<"00", "01", "02", "03">>[n + 1]
YearTok(y) == IF y = 1900 THEN "1900" ELSE "2024"
MonthAbbr(L, m) ==
    IF L = LC_RU THEN <<"yanv", "fevr">>[m] ELSE <<"Jan", "Feb">>[m]
DayAbbr(L, w) ==
    IF L = LC_RU THEN <<"Pn", "Vt", "Sr", "Cht", "Pt", "Sb", "Vs">>[w + 1]
    ELSE <<"Mon", "Tue", "Wed", "Thu", "Fri", "Sat", "Sun">>[w + 1]
(* 1 January fell on a Monday in 1900 and in 2024; January has 31 days. *)
Weekday(t) == ((t.m - 1) * 31 + (t.d - 1)) % 7

(* One directive of datetime.strftime under LC_TIME locale L. *)
Directive(c, t, L) ==
    CASE c = "d" -> <<D2(t.d)>>
      [] c = "m" -> <<D2(t.m)>>
      [] c = "b" -> <<MonthAbbr(L, t.m)>>
      [] c = "Y" -> <<YearTok(t.y)>>
      [] c = "a" -> <<DayAbbr(L, Weekday(t))>>
      [] c \in {"H", "M", "S"} -> <<"00">>
      [] c = "z" -> Empty
      [] c = "%" -> <<"%">>
      [] OTHER -> <<"%", c>>

RECURSIVE strftime(_, _, _)
strftime(t, fmt, L) ==
    IF fmt = << >> THEN Empty
    ELSE IF Head(fmt) = "%" /\ Len(fmt) >= 2
         THEN Directive(fmt[2], t, L) \o strftime(t, SubSeq(fmt, 3, Len(fmt)), L)
         ELSE <<Head(fmt)>> \o strftime(t, Tail(fmt), L)

(* datetime.strptime(data_string, format) under LC_TIME locale L: the    *)
(* parsed datetime, or NoDate where Python raises ValueError.  Fields    *)
(* the format does not name default to 1900-01-01.                       *)
RECURSIVE Scan(_, _, _, _)
Scan(data, fmt, L, acc) ==
    IF fmt = << >> THEN (IF data = << >> THEN acc ELSE NoDate)
    ELSE IF Head(fmt) = "%"
    THEN IF Len(fmt) < 2 THEN NoDate
         ELSE LET c == fmt[2]
                  rest == SubSeq(fmt, 3, Len(fmt))
              IN  IF c \notin {"d", "m", "b", "Y", "a", "H", "M", "S", "%"} \/ data = << >>
                  THEN NoDate
                  ELSE LET h == Head(data)
                           more == Tail(data)
                       IN CASE c = "d" ->
                                 IF \E d \in Days : D2(d) = h
                                 THEN Scan(more, rest, L,
                                        [acc EXCEPT !.d = CHOOSE d \in Days : D2(d) = h])
                                 ELSE NoDate
                            [] c = "m" ->
                                 IF \E m \in Months : D2(m) = h
                                 THEN Scan(more, rest, L,
                                        [acc EXCEPT !.m = CHOOSE m \in Months : D2(m) = h])
                                 ELSE NoDate
                            [] c = "b" ->
                                 IF \E m \in Months : MonthAbbr(L, m) = h
                                 THEN Scan(more, rest, L,
                                        [acc EXCEPT !.m = CHOOSE m \in Months : MonthAbbr(L, m) = h])
                                 ELSE NoDate
                            [] c = "Y" ->
                                 IF \E y \in Years : YearTok(y) = h
                                 THEN Scan(more, rest, L,
                                        [acc EXCEPT !.y = CHOOSE y \in Years : YearTok(y) = h])
                                 ELSE NoDate
                            [] c = "a" ->
                                 IF \E w \in 0..6 : DayAbbr(L, w) = h
                                 THEN Scan(more, rest, L, acc)
                                 ELSE NoDate
                            [] c \in {"H", "M", "S"} ->
                                 IF h = "00" THEN Scan(more, rest, L, acc) ELSE NoDate
                            [] c = "%" ->
                                 IF h = "%" THEN Scan(more, rest, L, acc) ELSE NoDate
    ELSE IF data # << >> /\ Head(data) = Head(fmt)
         THEN Scan(Tail(data), Tail(fmt), L, acc)
         ELSE NoDate

strptime(data_string, format, L) ==
    Scan(data_string, format, L, [y |-> 1900, m |-> 1, d |-> 1])

(* The body of parseDate's with-block: datetime.strptime(fmt[1], datestr). *)
(* fmt[1] is the second character of the format (IndexError when the     *)
(* format is shorter), passed as the data; datestr is passed as format.  *)
ParseBody(fmt, datestr, L) ==
    IF Len(fmt) < 2 THEN NoDate
    ELSE strptime(<<fmt[2]>>, datestr, L)

(* parseDate run to completion with no other thread in between: every   *)
(* exception, locale.Error of an unknown locale included, becomes None.  *)
parseDate(localename, fmt, datestr) ==
    IF localename \notin ValidLocales THEN NoDate
    ELSE ParseBody(fmt, datestr, localename)

(* The body of the second with-block, run under setlocale('C'):          *)
(* date.strftime('%a, %d %b %Y %H:%M:%S %z') if date else ''.            *)
CanonFormat ==
    <<"%", "a", ",", " ", "%", "d", " ", "%", "b", " ", "%", "Y", " ",
      "%", "H", ":", "%", "M", ":", "%", "S", " ", "%", "z">>

RenderBody(date, L) == IF date # NoDate THEN strftime(date, CanonFormat, L) ELSE Empty

(***************************************************************************)
(* Configuration.  Option values are texts; the defaults that are         *)
(* callables (nop, the channel.link lambda) are the two marker values.     *)
(***************************************************************************)
Prefix == "html2rss."
True == <<"true">>
False == <<"false">>
Nop == <<"<function nop>">>
LinkLambda == <<"<function lambda x: original.url>">>
isinstance_basestring(v) == v \notin {Nop, LinkLambda}

ScriptsClean ==
    <<" ", "script", " ", "@", "onclick", " ", "@", "onload", " ", "@", "onunload",
      " ", "@", "onmouseenter", " ", "@", "onmouseleave">>

XPathKeys ==
    <<"channel.title", "channel.description", "channel.link", "item", "item.title",
      "item.description", "item.link", "item.date", "item.guid">>

Defaults ==
    [k \in {"channel.title", "channel.description", "channel.description.textonly",
            "channel.link", "channel.allowempty", "item", "item.title",
            "item.description", "item.description.textonly", "item.link",
            "item.guid", "item.date", "item.date.locale", "item.date.format",
            "clean", "clean.scripts"} |->
        CASE k = "channel.title" -> <<"/html/head/title/text()">>
          [] k = "channel.description" -> <<"/html/head/meta[@name='description']/@value">>
          [] k = "channel.link" -> LinkLambda
          [] k \in {"channel.description.textonly", "channel.allowempty",
                    "item.description.textonly"} -> False
          [] k \in {"item", "item.title", "item.description", "item.link",
                    "item.guid", "item.date"} -> Nop
          [] k = "item.date.locale" -> LC_C
          [] k \in {"item.date.format", "clean"} -> Empty
          [] k = "clean.scripts" -> True]

(* HTML2RSSProcessor.__init__: keep the options that start with the      *)
(* prefix, under their names without it.  An option is <<prefix, name>>  *)
(* or <<name>>.                                                          *)
StripPrefix(args) ==
    [n \in {k[2] : k \in {a \in DOMAIN args : a[1] = Prefix}} |-> args[<<Prefix, n>>]]

(* params.update(self._params) *)
Update(defaults, overrides) ==
    [k \in DOMAIN defaults \cup DOMAIN overrides |->
        IF k \in DOMAIN overrides THEN overrides[k] ELSE defaults[k]]

(* lxml.etree.XPath(text): an expression with an unclosed predicate is   *)
(* an XPathSyntaxError.                                                  *)
GoodPath == <<"//", "node">>
BadPath == <<"//", "node", "[">>
XPathCompiles_Lax(text) == TRUE
XPathCompiles(text) == text # Empty /\ text[Len(text)] # "["

(* params['clean'].split(): the words between blanks. *)
RECURSIVE SplitFrom(_, _, _)
SplitFrom(text, word, words) ==
    IF text = << >> THEN (IF word = << >> THEN words ELSE Append(words, word))
    ELSE IF Head(text) = " "
         THEN SplitFrom(Tail(text), << >>, IF word = << >> THEN words ELSE Append(words, word))
         ELSE SplitFrom(Tail(text), Append(word, Head(text)), words)

split(text) == SplitFrom(text, << >>, << >>)

CleanWords(p) ==
    split(IF p["clean.scripts"] = True THEN p["clean"] \o ScriptsClean ELSE p["clean"])
CleanTags(p) == SelectSeq(CleanWords(p), LAMBDA w : w[1] # "@")
CleanAttrs(p) ==
    LET at == SelectSeq(CleanWords(p), LAMBDA w : w[1] = "@")
    IN  [i \in 1..Len(at) |-> Tail(at[i])]

(***************************************************************************)
(* Responses and documents.  A document records what each configured path *)
(* selects in it: for the channel, and for every element the item path   *)
(* matches (in document order).                                           *)
(***************************************************************************)
Absent == <<"(no header)">>
NoExc == [kind |-> "", msg |-> Empty]
Exc(kind, msg) == [kind |-> kind, msg |-> msg]
repr(E) == <<E.kind, "(">> \o E.msg \o <<")">>

(* The names the module binds before _parse can run: its imports and its *)
(* own definitions.                                                      *)
ModuleGlobals ==
    {"deepcopy", "BytesIO", "gzip", "hashlib", "urllib2", "lxml", "locale",
     "threading", "datetime", "contextmanager", "LOCALE_LOCK", "setlocale",
     "parseDate", "nop", "ResponseWrapper", "HTML2RSSProcessor",
     "add_urllib2_handlers", "rawdoglib"}

(* The statement 'raise URLError(reason)': the name is looked up first. *)
RaiseURLError(reason) ==
    IF "URLError" \in ModuleGlobals
    THEN Exc("URLError", reason)
    ELSE Exc("NameError", <<"global name 'URLError' is not defined">>)

(* params[key](node) *)
Eval(p, key, node, url) ==
    IF p[key] = Nop THEN VNone
    ELSE IF p[key] = LinkLambda THEN VStr(url)
    ELSE node[key]

(* The document lxml.html.parse builds from the bytes it is given: the   *)
(* page itself when they are plain, a tree in which no path matches      *)
(* anything when they are still compressed.                              *)
NoMatchDoc ==
    [wellformed |-> TRUE,
     chan |-> [k \in {"channel.title", "channel.description", "channel.link"} |->
                 VList(<< >>)],
     items |-> << >>]
HtmlOf(body) == IF body.coding = "identity" THEN body.doc ELSE NoMatchDoc

(* hashlib.md5 of the text: a digest that depends on all of it. *)
Md5(text) == <<"md5">> \o text

(***************************************************************************)
(* The output document and its buffer.                                     *)
(***************************************************************************)
NoFeed == [channel |-> [title |-> Empty, description |-> Empty, link |-> Empty],
           items |-> << >>]

(* _addIf: the tag is added only for a truthy value. *)
_addIf(tag, value) ==
    IF value = Empty THEN Empty
    ELSE <<"<", tag, ">">> \o value \o <<"</", tag, ">">>

ItemXml(it) ==
    <<"<item>">> \o _addIf("title", it.title) \o _addIf("description", it.description)
        \o _addIf("link", it.link) \o _addIf("guid", it.guid)
        \o _addIf("pubDate", it.pubDate) \o <<"</item>">>

(* rss.getroottree().write(...): the bytes of the document. *)
Serialize(feed) ==
    <<"<?xml version='1.0' encoding='UTF-8'?>", "<rss version='2.0'>", "<channel>">>
        \o _addIf("title", feed.channel.title)
        \o _addIf("description", feed.channel.description)
        \o _addIf("link", feed.channel.link)
        \o Join([i \in 1..Len(feed.items) |-> ItemXml(feed.items[i])])
        \o <<"</channel>", "</rss>">>

(* io.BytesIO *)
BytesIO == [data |-> Empty, pos |-> 0, closed |-> FALSE]
write(b, bytes) ==
    [b EXCEPT !.data = SubSeq(b.data, 1, b.pos) \o bytes, !.pos = b.pos + Len(bytes)]
tell(b) == b.pos
seek(b, offset) == [b EXCEPT !.pos = offset]

(* A variant of Dump that asks for the position after rewinding. *)
Dump_Rewound(feed) ==
    LET newbuffer == seek(write(BytesIO, Serialize(feed)), 0)
    IN  [size |-> tell(newbuffer), newbuffer |-> newbuffer]

(* Lines 243-248: the buffer handed to the wrapper and the size written  *)
(* to Content-Length, taken before the buffer is rewound.               *)
Dump(feed) ==
    LET newbuffer == write(BytesIO, Serialize(feed))
    IN  [size |-> tell(newbuffer), newbuffer |-> seek(newbuffer, 0)]

(***************************************************************************)
(* _parse.                                                                 *)
(***************************************************************************)
TruthyRet(r) == ~r.isNone /\ r.s # Empty

(* strftime refuses years before 1900 with a ValueError, which the       *)
(* 'except ValueError' of the date section turns into ''.                *)
RenderRaises(date) == date # NoDate /\ date.y < 1900

(* A both-fields variant of the test below. *)
Keep_Both(title, description) == TruthyRet(title) /\ TruthyRet(description)

(* Line 234: 'if (title or description)'. *)
Keep(title, description) == TruthyRet(title) \/ TruthyRet(description)

(* One pass of the item loop for the i-th matched element e. *)
ItemFields(p, e, i, url) ==
    LET title == _textualize(Eval(p, "item.title", e, url))
        description ==
            IF p["item.description.textonly"] = True
            THEN _textualize(Eval(p, "item.description", e, url))
            ELSE Ret(_import(Eval(p, "item.description", e, url),
                             CleanTags(p), CleanAttrs(p)))
        link == _textualize(Eval(p, "item.link", e, url))
        rawguidtext == _textualize(Eval(p, "item.guid", e, url))
        guid == IF TruthyRet(rawguidtext) THEN Md5(rawguidtext.s) ELSE Empty
        datetext == _textualize(Eval(p, "item.date", e, url))
        date == IF TruthyRet(datetext)
                THEN parseDate(p["item.date.locale"], p["item.date.format"], datetext.s)
                ELSE NoDate
        pubDate == IF RenderRaises(date) THEN Empty ELSE RenderBody(date, LC_C)
        none == [src |-> 0, title |-> Empty, description |-> Empty, link |-> Empty,
                 guid |-> Empty, pubDate |-> Empty]
        raise(kind, where) ==
            [exc |-> kind, origin |-> where, keep |-> FALSE, item |-> none]
    IN  IF title.exc # "" THEN raise(title.exc, "title")
        ELSE IF description.exc # "" THEN raise(description.exc, "description")
        ELSE IF link.exc # "" THEN raise(link.exc, "link")
        ELSE IF rawguidtext.exc # "" THEN raise(rawguidtext.exc, "guid")
        ELSE IF datetext.exc # "" THEN raise(datetext.exc, "date")
        ELSE [exc |-> "", origin |-> "",
              keep |-> Keep(title, description),
              item |-> [src |-> i, title |-> title.s, description |-> description.s,
                        link |-> link.s, guid |-> guid, pubDate |-> pubDate]]

(* The item loop from the i-th element on; out holds the items added. *)
RECURSIVE ItemLoop(_, _, _, _, _)
ItemLoop(p, founditems, i, url, out) ==
    IF i > Len(founditems) THEN [exc |-> "", origin |-> "", items |-> out]
    ELSE LET f == ItemFields(p, founditems[i], i, url)
         IN  IF f.exc # "" THEN [exc |-> f.exc, origin |-> f.origin, items |-> out]
             ELSE ItemLoop(p, founditems, i + 1, url,
                           IF f.keep THEN Append(out, f.item) ELSE out)

(* 'except Exception as E: raise URLError("Feed parsing failed: "+repr(E))' *)
Failure(E, where, info) ==
    [ok |-> FALSE, buffer |-> BytesIO, info |-> info, feed |-> NoFeed,
     exc |-> RaiseURLError(<<"Feed parsing failed: ">> \o repr(E)),
     inner |-> E, origin |-> where]

_parse(overrides, orig) ==
    LET p == Update(Defaults, overrides)
        url == orig.url
        uncompilable ==
            {i \in 1..Len(XPathKeys) :
                /\ isinstance_basestring(p[XPathKeys[i]])
                /\ ~XPathCompiles(p[XPathKeys[i]])}
        encoding == IF orig.info["Content-Encoding"] = Absent
                    THEN Empty ELSE orig.info["Content-Encoding"]
        gz == encoding = <<"gzip">>
        info1 == IF gz THEN [orig.info EXCEPT !["Content-Encoding"] = Absent]
                 ELSE orig.info
        htmltree == IF gz THEN orig.body.doc ELSE HtmlOf(orig.body)
        ctitle == _textualize(Eval(p, "channel.title", htmltree.chan, url))
        cdesc == IF p["channel.description.textonly"] = True
                 THEN _textualize(Eval(p, "channel.description", htmltree.chan, url))
                 ELSE Ret(_import(Eval(p, "channel.description", htmltree.chan, url),
                                  CleanTags(p), CleanAttrs(p)))
        clink == _textualize(Eval(p, "channel.link", htmltree.chan, url))
        founditems == htmltree.items
        loop == ItemLoop(p, founditems, 1, url, << >>)
        feed == [channel |-> [title |-> ctitle.s, description |-> cdesc.s,
                              link |-> clink.s],
                 items |-> loop.items]
        dump == Dump(feed)
    IN  IF uncompilable # {}
        THEN Failure(Exc("XPathSyntaxError", <<"Invalid predicate">>), "compile", orig.info)
        ELSE IF gz /\ orig.body.coding # "gzip"
        THEN Failure(Exc("IOError", <<"Not a gzipped file">>), "gunzip", info1)
        ELSE IF ~htmltree.wellformed
        THEN Failure(Exc("XMLSyntaxError", <<"Document is empty">>), "parse", info1)
        ELSE IF ctitle.exc # "" \/ cdesc.exc # "" \/ clink.exc # ""
        THEN Failure(Exc("TypeError", <<"sequence item: expected string, NoneType found">>),
                     "channel", info1)
        ELSE IF p["item"] = Nop
        THEN Failure(Exc("TypeError", <<"'NoneType' has no len() and is not iterable">>),
                     "items", info1)
        ELSE IF p["channel.allowempty"] # True /\ Len(founditems) = 0
        THEN Failure(RaiseURLError(<<"No items found in the feed ">> \o url),
                     "empty", info1)
        ELSE IF loop.exc # ""
        THEN Failure(Exc(loop.exc, <<"sequence item: expected string, NoneType found">>),
                     loop.origin, info1)
        ELSE [ok |-> TRUE, buffer |-> dump.newbuffer,
              info |-> [info1 EXCEPT !["Content-Length"] = str(dump.size),
                                     !["Content-Type"] =
                                        <<"application/rss+xml;charset=UTF-8">>],
              feed |-> feed, exc |-> NoExc, inner |-> NoExc, origin |-> ""]

(***************************************************************************)
(* The inputs: feed definitions and fetched responses.                    *)
(***************************************************************************)
Fdby == <<"%", "d", " ", "%", "b", " ", "%", "Y">>
Formats == {Fdby}
T1 == [y |-> 2024, m |-> 1, d |-> 2]
T2 == [y |-> 2024, m |-> 2, d |-> 1]
Times == {T1, T2}

(* The function a set of <<key, value>> pairs describes. *)
FnOf(pairs) ==
    [k \in {q[1] : q \in pairs} |-> (CHOOSE q \in pairs : q[1] = k)[2]]

Opt(name, values) == {{<<<<Prefix, name>>, v>>} : v \in values}

(* feed.args of a feed definition: rawdog's own options, 'html2rss true' *)
(* and a choice of plugin options (none where a set below holds {}).     *)
FeedArgs ==
    {FnOf({<<<<"html2rss">>, True>>, <<<<"format">>, <<"text">>>>,
           <<<<Prefix, "item.title">>, GoodPath>>,
           <<<<Prefix, "item.description">>, GoodPath>>}
          \cup item \cup date \cup allowempty \cup textonly \cup lc \cup fmt) :
        item \in {{}} \cup Opt("item", {GoodPath, BadPath}),
        date \in {{}} \cup Opt("item.date", {GoodPath}),
        allowempty \in {{}} \cup Opt("channel.allowempty", {True}),
        textonly \in {{}} \cup Opt("item.description.textonly", {True}),
        lc \in {{}} \cup Opt("item.date.locale", {LC_RU, LC_XX}),
        fmt \in {{}} \cup Opt("item.date.format", Formats)}

ItemKeys == {"item.title", "item.description", "item.link", "item.guid", "item.date"}
Element(title, description, date) ==
    [k \in ItemKeys |->
        CASE k = "item.title" -> title
          [] k = "item.description" -> description
          [] k = "item.date" -> date
          [] OTHER -> VList(<< >>)]

(* The elements a page may hold, by what the item paths select in them. *)
Elements ==
    { Element(VList(<<VStr(<<"Hello">>)>>),
              VList(<<VElem(FALSE, Empty,
                            <<Kid(<<"p">>, << >>, <<"World">>, Empty)>>)>>),
              VList(<<VStr(strftime(T1, Fdby, LC_C))>>)),
      Element(VList(<< >>),
              VList(<<VStr(<<" ">>)>>),
              VList(<<VStr(<<"d">>)>>)),
      Element(VList(<<VStr(<<"Hi">>)>>),
              VList(<< >>),
              VList(<<VElem(FALSE, Empty, << >>)>>)),
      Element(VList(<<VElem(TRUE, <<"Hi">>, << >>)>>),
              VList(<<VElem(TRUE, <<"D">>,
                            <<Kid(<<"script">>, <<<<"onload">>>>, <<"x">>, Empty)>>)>>),
              VList(<<VStr(strftime(T2, Fdby, LC_RU))>>)),
      Element(VList(<< >>), VList(<< >>), VList(<< >>)) }

SeqsUpTo(S, n) == UNION {[1..k -> S] : k \in 0..n}

Page(items) ==
    [wellformed |-> TRUE,
     chan |-> [k \in {"channel.title", "channel.description", "channel.link"} |->
                 IF k = "channel.title" THEN VList(<<VStr(<<"Site">>)>>)
                 ELSE VList(<< >>)],
     items |-> items]
EmptyFile == [NoMatchDoc EXCEPT !.wellformed = FALSE]
Documents == {EmptyFile} \cup {Page(items) : items \in SeqsUpTo(Elements, MaxItems)}
ShortDocuments == {d \in Documents : Len(d.items) <= 1}

HeaderNames == {"Content-Encoding", "Content-Length", "Content-Type", "Server"}
Headers(encoding) ==
    [h \in HeaderNames |->
        CASE h = "Content-Encoding" -> encoding
          [] h = "Content-Length" -> <<"9", "9">>
          [] h = "Content-Type" -> <<"text/html">>
          [] h = "Server" -> <<"nginx">>]

(* A response as the server sent it: the body is coded as the           *)
(* Content-Encoding header says.                                        *)
Response(coding, doc) ==
    [url |-> <<"http://site/news">>, code |-> 200, msg |-> <<"OK">>,
     info |-> Headers(IF coding = "identity" THEN Absent ELSE <<coding>>),
     body |-> [coding |-> coding, doc |-> doc]]
(* The responses fetched: plain ones with any of the documents, and    *)
(* compressed ones with the documents of at most one element.          *)
Responses ==
    {Response("identity", doc) : doc \in Documents}
        \cup {Response(coding, doc) : coding \in {"gzip", "deflate"},
                                      doc \in ShortDocuments}

NoResponse ==
    [url |-> Empty, code |-> 0, msg |-> Empty,
     info |-> [h \in HeaderNames |-> Absent],
     body |-> [coding |-> "identity", doc |-> EmptyFile]]
NoWrapper ==
    [url |-> Empty, code |-> 0, msg |-> Empty, _buffer |-> BytesIO,
     _info |-> [h \in HeaderNames |-> Absent]]

(***************************************************************************)
(* ResponseWrapper.                                                        *)
(***************************************************************************)
(* A variant of the constructor that does not take over the status. *)
ResponseWrapper_NoStatus(orig, result) ==
    [url |-> orig.url, code |-> 0, msg |-> Empty,
     _buffer |-> result.buffer, _info |-> result.info]

(* ResponseWrapper.__init__ *)
ResponseWrapper(orig, result) ==
    [url |-> orig.url, code |-> orig.code, msg |-> orig.msg,
     _buffer |-> result.buffer, _info |-> result.info]

geturl(w) == w.url
getcode(w) == w.code
info(w) == w._info
wtell(w) == tell(w._buffer)

(* BytesIO.read(size): the bytes from the position on, at most size of  *)
(* them when size is not negative.                                      *)
ReadEnd(b, size) ==
    IF size < 0 \/ b.pos + size > Len(b.data) THEN Len(b.data) ELSE b.pos + size
read(w, size) == [w EXCEPT !._buffer.pos = ReadEnd(w._buffer, size)]
close(w) == [w EXCEPT !._buffer.closed = TRUE]

ReadSizes == {-1, 16}

(* The methods the class defines. *)
WrapperMethods == {"read", "geturl", "info", "getcode", "tell", "close"}

(***************************************************************************)
(* Spec: one source's handler.                                             *)
(***************************************************************************)
LIdle ==
    /\ lock = 0
    /\ loc = LC_C
    /\ loc0 = LC_C
    /\ pc = << >>
    /\ saved = << >>
    /\ job = << >>
    /\ dateobj = << >>
    /\ ranUnder = << >>
    /\ left = << >>

Init ==
    /\ phase = "new"
    /\ params = << >>
    /\ original = NoResponse
    /\ wrapper = NoWrapper
    /\ raised = NoExc
    /\ served = 0
    /\ compiles = 0
    /\ rss = NoFeed
    /\ origin = ""
    /\ LIdle

(* add_urllib2_handlers: HTML2RSSProcessor(config, feed) for a feed      *)
(* whose definition says 'html2rss true'.                                *)
Construct(args) ==
    /\ phase = "new"
    /\ args[<<"html2rss">>] = True
    /\ params' = StripPrefix(args)
    /\ phase' = "registered"
    /\ UNCHANGED <<original, wrapper, raised, served, compiles, rss, origin, lvars>>

(* _modifyResponse: ResponseWrapper(response, self._parse).  The        *)
(* wrapper exists only if _parse returned; otherwise its exception      *)
(* leaves the handler.                                                  *)
_modifyResponse(response) ==
    /\ phase = "registered"
    /\ served < MaxResponses
    /\ LET result == _parse(params, response)
       IN  /\ original' = response
           /\ served' = served + 1
           /\ compiles' = compiles + 1
           /\ IF result.ok
              THEN /\ wrapper' = ResponseWrapper(response, result)
                   /\ rss' = result.feed
                   /\ raised' = NoExc
                   /\ origin' = ""
                   /\ phase' = "wrapped"
              ELSE /\ wrapper' = NoWrapper
                   /\ rss' = NoFeed
                   /\ raised' = result.exc
                   /\ origin' = result.origin
                   /\ phase' = "failed"
    /\ UNCHANGED <<params, lvars>>

(* The caller reads from the wrapper. *)
Read(size) ==
    /\ phase = "wrapped"
    /\ ~wrapper._buffer.closed
    /\ wrapper' = read(wrapper, size)
    /\ UNCHANGED <<phase, params, original, raised, served, compiles, rss, origin, lvars>>

(* The caller closes the wrapper. *)
Close ==
    /\ phase = "wrapped"
    /\ ~wrapper._buffer.closed
    /\ wrapper' = close(wrapper)
    /\ UNCHANGED <<phase, params, original, raised, served, compiles, rss, origin, lvars>>

(* The opener is done with the response; the handler waits for the next. *)
NextFetch ==
    /\ phase \in {"wrapped", "failed"}
    /\ served < MaxResponses
    /\ phase' = "registered"
    /\ original' = NoResponse
    /\ wrapper' = NoWrapper
    /\ raised' = NoExc
    /\ rss' = NoFeed
    /\ origin' = ""
    /\ UNCHANGED <<params, served, compiles, lvars>>

Next ==
    \/ \E args \in FeedArgs : Construct(args)
    \/ \E response \in Responses : _modifyResponse(response)
    \/ \E size \in ReadSizes : Read(size)
    \/ Close
    \/ NextFetch

Spec == Init /\ [][Next]_vars

(***************************************************************************)
(* LockSpec: threads in the date section of the item loop.  Each thread   *)
(* transforms the responses of one source, so it has its own              *)
(* item.date.locale and item.date.format; the locale and LOCALE_LOCK are  *)
(* the process's.  A thread can be preempted between any two steps.       *)
(*                                                                         *)
(* pc: "idle"  before 'date = self._textualize(...)' of the next item      *)
(*     "p_lock" "p_save" "p_set" "p_body" "p_restore" "p_unlock"           *)
(*             setlocale(localename) and its body, inside parseDate        *)
(*     "r_lock" "r_save" "r_set" "r_body" "r_restore" "r_unlock"           *)
(*             setlocale('C') and its body, the rendering of pubDate       *)
(*     "done"  after the last item                                         *)
(***************************************************************************)
Threads == 1..NThreads
NoThread == 0
LC_EN == <<"en_US.UTF-8">>
Unset == <<"(unset)">>
Skipped == <<"(locale.Error)">>

(* The date texts the items of a page yield: none, one that the parse   *)
(* accepts, one that it rejects.                                        *)
DateTexts == {Empty, <<"d">>, strftime(T2, Fdby, LC_RU)}

InCritical(t) ==
    pc[t] \in {"p_save", "p_set", "p_body", "p_restore", "p_unlock",
               "r_save", "r_set", "r_body", "r_restore", "r_unlock"}

CanAcquire_Always(holder) == TRUE

(* 'with LOCALE_LOCK:' is entered only while no thread holds the lock. *)
CanAcquire(holder) == holder = NoThread

Restored_Not(current, savedLocale) == current

(* 'locale.setlocale(locale.LC_ALL, saved)' in the finally clause. *)
Restored(current, savedLocale) == savedLocale

(* The thread's source configuration: locale and format of its dates.  *)
(* The process starts under the user's locale, which rawdog sets; the  *)
(* threads being alike, the sources with the unknown locale come last. *)
JobOf(localename) == [locale |-> localename, format |-> Fdby, datestr |-> Empty]

LInit ==
    /\ lock = NoThread
    /\ loc0 = LC_EN
    /\ loc = loc0
    /\ pc = [t \in Threads |-> "idle"]
    /\ saved = [t \in Threads |-> Unset]
    /\ job \in {j \in [Threads -> {JobOf(l) : l \in {LC_RU, LC_XX}}] :
                    \A t \in Threads \ {NThreads} :
                        j[t].locale = LC_XX => j[t + 1].locale = LC_XX}
    /\ dateobj = [t \in Threads |-> NoDate]
    /\ ranUnder = [t \in Threads |-> Unset]
    /\ left = [t \in Threads |-> MaxDates]
    /\ phase = "new"
    /\ params = << >>
    /\ original = NoResponse
    /\ wrapper = NoWrapper
    /\ raised = NoExc
    /\ served = 0
    /\ compiles = 0
    /\ rss = NoFeed
    /\ origin = ""

(* Line 227-228: the date text of the next item; parseDate is called    *)
(* only for a non-empty text.                                           *)
StartItem(t, text) ==
    /\ pc[t] = "idle"
    /\ left[t] > 0
    /\ job' = [job EXCEPT ![t].datestr = text]
    /\ pc' = [pc EXCEPT ![t] = IF text # Empty THEN "p_lock" ELSE "r_lock"]
    /\ UNCHANGED <<lock, loc, loc0, saved, dateobj, ranUnder, left, pvars>>

(* Line 62: with LOCALE_LOCK. *)
Acquire(t) ==
    /\ pc[t] \in {"p_lock", "r_lock"}
    /\ CanAcquire(lock)
    /\ lock' = t
    /\ pc' = [pc EXCEPT ![t] = IF pc[t] = "p_lock" THEN "p_save" ELSE "r_save"]
    /\ UNCHANGED <<loc, loc0, saved, job, dateobj, ranUnder, left, pvars>>

(* Line 63: saved = locale.setlocale(locale.LC_ALL). *)
Save(t) ==
    /\ pc[t] \in {"p_save", "r_save"}
    /\ saved' = [saved EXCEPT ![t] = loc]
    /\ pc' = [pc EXCEPT ![t] = IF pc[t] = "p_save" THEN "p_set" ELSE "r_set"]
    /\ UNCHANGED <<lock, loc, loc0, job, dateobj, ranUnder, left, pvars>>

(* Line 65: locale.setlocale(locale.LC_ALL, name), then the yield.  An   *)
(* unknown name raises locale.Error: the body is skipped and the        *)
(* finally clause runs.                                                 *)
SetLocale(t) ==
    /\ pc[t] \in {"p_set", "r_set"}
    /\ LET name == IF pc[t] = "p_set" THEN job[t].locale ELSE LC_C
       IN  IF name \in ValidLocales
           THEN /\ loc' = name
                /\ pc' = [pc EXCEPT ![t] = IF pc[t] = "p_set" THEN "p_body" ELSE "r_body"]
                /\ UNCHANGED ranUnder
           ELSE /\ loc' = loc
                /\ pc' = [pc EXCEPT ![t] = IF pc[t] = "p_set" THEN "p_restore" ELSE "r_restore"]
                /\ ranUnder' = [ranUnder EXCEPT ![t] = Skipped]
    /\ UNCHANGED <<lock, loc0, saved, job, dateobj, left, pvars>>

(* Line 72: dateobj = datetime.strptime(fmt[1], datestr), under the     *)
(* locale the process has at this moment.                               *)
ParseStep(t) ==
    /\ pc[t] = "p_body"
    /\ dateobj' = [dateobj EXCEPT ![t] = ParseBody(job[t].format, job[t].datestr, loc)]
    /\ ranUnder' = [ranUnder EXCEPT ![t] = loc]
    /\ pc' = [pc EXCEPT ![t] = "p_restore"]
    /\ UNCHANGED <<lock, loc, loc0, saved, job, left, pvars>>

(* Line 230: date.strftime(...) if date else '', under the locale the   *)
(* process has at this moment.                                          *)
RenderStep(t) ==
    /\ pc[t] = "r_body"
    /\ ranUnder' = [ranUnder EXCEPT ![t] = loc]
    /\ pc' = [pc EXCEPT ![t] = "r_restore"]
    /\ UNCHANGED <<lock, loc, loc0, saved, job, dateobj, left, pvars>>

(* Line 67: finally: locale.setlocale(locale.LC_ALL, saved). *)
Restore(t) ==
    /\ pc[t] \in {"p_restore", "r_restore"}
    /\ loc' = Restored(loc, saved[t])
    /\ pc' = [pc EXCEPT ![t] = IF pc[t] = "p_restore" THEN "p_unlock" ELSE "r_unlock"]
    /\ UNCHANGED <<lock, loc0, saved, job, dateobj, ranUnder, left, pvars>>

(* Leaving 'with LOCALE_LOCK': the lock is released.  After parseDate   *)
(* (whose result replaces the date text in 'date') comes the rendering; *)
(* after the rendering, the next item, whose date section starts from   *)
(* fresh locals.                                                        *)
Release(t) ==
    /\ pc[t] \in {"p_unlock", "r_unlock"}
    /\ lock' = NoThread
    /\ saved' = [saved EXCEPT ![t] = Unset]
    /\ IF pc[t] = "p_unlock"
       THEN /\ pc' = [pc EXCEPT ![t] = "r_lock"]
            /\ job' = [job EXCEPT ![t].datestr = Empty]
            /\ UNCHANGED <<left, dateobj, ranUnder>>
       ELSE /\ pc' = [pc EXCEPT ![t] = IF left[t] > 1 THEN "idle" ELSE "done"]
            /\ left' = [left EXCEPT ![t] = @ - 1]
            /\ job' = [job EXCEPT ![t].datestr = Empty]
            /\ dateobj' = [dateobj EXCEPT ![t] = NoDate]
            /\ ranUnder' = [ranUnder EXCEPT ![t] = Unset]
    /\ UNCHANGED <<loc, loc0, pvars>>

ThreadStep(t) ==
    \/ \E text \in DateTexts : StartItem(t, text)
    \/ Acquire(t)
    \/ Save(t)
    \/ SetLocale(t)
    \/ ParseStep(t)
    \/ RenderStep(t)
    \/ Restore(t)
    \/ Release(t)

LNext == \E t \in Threads : ThreadStep(t)

(* Every thread that can take a step eventually takes one: the         *)
(* interpreter keeps switching between runnable threads.                *)
LockSpec == LInit /\ [][LNext]_vars /\ \A t \in Threads : WF_vars(ThreadStep(t))

(***************************************************************************)
(* Properties.                                                             *)
(***************************************************************************)
(* The merged configuration of the handler. *)
Cfg == Update(Defaults, params)
Transformed == phase \in {"wrapped", "failed"}
(* The elements the item path matched in the document that was parsed. *)
Matched ==
    IF original.info["Content-Encoding"] = <<"gzip">>
    THEN original.body.doc.items
    ELSE HtmlOf(original.body).items
Emitted(i) == \E j \in 1..Len(rss.items) : rss.items[j].src = i
FieldsOf(i) == ItemFields(Cfg, Matched[i], i, original.url).item
IsBlank(text) == \A k \in 1..Len(text) : text[k] = " "
Waiting(t) == pc[t] \in {"p_lock", "r_lock"}
AfterParse(t) ==
    pc[t] \in {"p_restore", "p_unlock", "r_lock", "r_save", "r_set", "r_body"}
AfterRender(t) == pc[t] \in {"r_restore", "r_unlock"}

(* C1: at most one thread is inside the setlocale critical section, the   *)
(* thread inside holds LOCALE_LOCK, and every parse runs under the locale  *)
(* its own thread asked for (item.date.locale), every rendering under 'C'. *)
C1_LocaleMutualExclusion ==
    /\ \A s, t \in Threads : InCritical(s) /\ InCritical(t) => s = t
    /\ \A t \in Threads : InCritical(t) => lock = t
    /\ \A t \in Threads : pc[t] = "p_body" => loc = job[t].locale
    /\ \A t \in Threads : pc[t] = "r_body" => loc = LC_C
    /\ \A t \in Threads : AfterParse(t) => ranUnder[t] \in {Unset, Skipped, job[t].locale}
    /\ \A t \in Threads : AfterRender(t) => ranUnder[t] = LC_C

(* One thread parses under its locale while a thread of a source with     *)
(* another locale waits for the lock.                                     *)
C1_Witness ==
    \E s, t \in Threads :
        /\ pc[s] = "p_body"
        /\ loc = LC_RU
        /\ Waiting(t)
        /\ job[t].locale # job[s].locale

(* C2: whenever no thread holds LOCALE_LOCK the process locale is the one *)
(* it had at the start; a thread waiting for the lock gets it, and a      *)
(* thread inside the critical section leaves it and releases the lock.    *)
C2_LocaleRestoredLockReleased ==
    /\ [](lock = NoThread => loc = loc0)
    /\ \A t \in Threads : Waiting(t) ~> InCritical(t)
    /\ \A t \in Threads : InCritical(t) ~> (lock # t)

(* A thread whose locale name is unknown has left parseDate's critical    *)
(* section: the lock is free and the locale is the initial, non-C one.    *)
C2_Witness ==
    \E t \in Threads :
        /\ pc[t] = "r_lock"
        /\ job[t].locale = LC_XX
        /\ ranUnder[t] = Skipped
        /\ lock = NoThread
        /\ loc0 = LC_EN
        /\ loc = loc0

(* C3, as stated: an item is emitted for a matched element exactly when   *)
(* its title or its description has a character that is not whitespace.   *)
C3_WhitespaceCountsAsEmpty ==
    phase = "wrapped" =>
        \A i \in 1..Len(Matched) :
            Emitted(i) <=> (~IsBlank(FieldsOf(i).title) \/ ~IsBlank(FieldsOf(i).description))

(* C3, amended: an item is emitted for a matched element exactly when its *)
(* title or its description is a non-empty text (whitespace included);    *)
(* the items emitted keep the document's order and carry those texts.     *)
C3_ItemSurvival ==
    phase = "wrapped" =>
        /\ \A i \in 1..Len(Matched) :
            Emitted(i) <=> (FieldsOf(i).title # Empty \/ FieldsOf(i).description # Empty)
        /\ \A j \in 1..Len(rss.items) :
            /\ rss.items[j].src \in 1..Len(Matched)
            /\ rss.items[j].title = FieldsOf(rss.items[j].src).title
            /\ rss.items[j].description = FieldsOf(rss.items[j].src).description
            /\ j > 1 => rss.items[j - 1].src < rss.items[j].src

(* Of two matched elements, the one whose only content is a blank         *)
(* description is emitted and the one with no content is not.             *)
C3_Witness ==
    /\ phase = "wrapped"
    /\ Len(Matched) = 2
    /\ Len(rss.items) = 1
    /\ rss.items[1].title = Empty
    /\ rss.items[1].description = <<" ">>

(* C4: when the item path matches nothing, the transformation fails with  *)
(* an error that names the empty feed unless channel.allowempty is true,  *)
(* and then it succeeds with a channel of zero items.                     *)
ItemPathMatchedNothing ==
    /\ Transformed
    /\ origin \in {"", "empty"}
    /\ Len(Matched) = 0
NamesEmptyFeed(exc) == "No items found in the feed " \in Range(exc.msg)
C4_EmptyItemsPolicy ==
    ItemPathMatchedNothing =>
        IF Cfg["channel.allowempty"] = True
        THEN phase = "wrapped" /\ rss.items = << >>
        ELSE phase = "failed" /\ NamesEmptyFeed(raised)

(* C5: every failure of the transformation reaches the caller as a        *)
(* URLError that carries a description of the cause and the response's    *)
(* URL.                                                                   *)
Contains(text, part) ==
    \E k \in 0..(Len(text) - Len(part)) : SubSeq(text, k + 1, k + Len(part)) = part
C5_FailuresAreURLError ==
    phase = "failed" =>
        /\ raised.kind = "URLError"
        /\ Contains(raised.msg, <<"Feed parsing failed: ">>)
        /\ Contains(raised.msg, original.url)

(* C6: no transformation fails because of what the item.date path         *)
(* returned.                                                              *)
C6_BadDateNeverAborts == phase = "failed" => origin # "date"

(* C7: an item whose date text is strftime(t, F) under locale L, with     *)
(* item.date.format F and item.date.locale L, gets the pubDate that       *)
(* formatting t canonically under 'C' gives.                              *)
DateTextOf(i) == _textualize(Eval(Cfg, "item.date", Matched[i], original.url)).s
C7_DateRoundTrip ==
    phase = "wrapped" /\ Cfg["item.date.format"] \in Formats
                      /\ Cfg["item.date.locale"] \in ValidLocales =>
        \A j \in 1..Len(rss.items) : \A t \in Times :
            DateTextOf(rss.items[j].src)
                    = strftime(t, Cfg["item.date.format"], Cfg["item.date.locale"])
                => rss.items[j].pubDate = strftime(t, CanonFormat, LC_C)

(* C8, as stated: after a successful transformation Content-Length is the *)
(* byte count of the feed, Content-Type the feed type, and any            *)
(* Content-Encoding the response carried is gone.                         *)
LengthAndTypeSet ==
    /\ wrapper._buffer.data = Serialize(rss)
    /\ info(wrapper)["Content-Length"] = str(Len(wrapper._buffer.data))
    /\ info(wrapper)["Content-Type"] = <<"application/rss+xml;charset=UTF-8">>
C8_AnyEncodingRemoved ==
    phase = "wrapped" =>
        /\ LengthAndTypeSet
        /\ original.info["Content-Encoding"] # Absent
            => info(wrapper)["Content-Encoding"] = Absent

(* C8, amended: Content-Length and Content-Type as stated; a              *)
(* Content-Encoding of gzip is removed and the feed is built from the     *)
(* decompressed page; any other Content-Encoding stays as it was.         *)
C8_GzipEncodingRemoved ==
    phase = "wrapped" =>
        /\ LengthAndTypeSet
        /\ original.info["Content-Encoding"] = <<"gzip">>
            => /\ info(wrapper)["Content-Encoding"] = Absent
               /\ rss.channel.title
                    = _textualize(original.body.doc.chan["channel.title"]).s
               /\ \A j \in 1..Len(rss.items) :
                    rss.items[j].src \in 1..Len(original.body.doc.items)
        /\ original.info["Content-Encoding"] # <<"gzip">>
            => info(wrapper)["Content-Encoding"] = original.info["Content-Encoding"]

(* A gzip response was transformed into a feed with an item. *)
C8_Witness ==
    /\ phase = "wrapped"
    /\ original.info["Content-Encoding"] = <<"gzip">>
    /\ Len(rss.items) > 0

BadOverride ==
    \E k \in DOMAIN params \cap Range(XPathKeys) : params[k] = BadPath
C10_CompiledAtRegistration ==
    /\ phase # "new" => ~BadOverride
    /\ phase = "failed" => origin # "compile"
    /\ compiles <= 1

(* C10, amended: the constructor accepts any override; the bindings are   *)
(* compiled once in every transformation, and an override that does not   *)
(* compile fails each of them, as a failure of that transformation.       *)
C10_CompiledPerResponse ==
    /\ compiles = served
    /\ Transformed /\ BadOverride => phase = "failed" /\ origin = "compile"
    /\ phase = "failed" /\ origin = "compile" => BadOverride

(* The second response of a handler with a bad override fails in          *)
(* compilation, as the first did.                                         *)
C10_Witness ==
    /\ phase = "failed"
    /\ origin = "compile"
    /\ BadOverride
    /\ served = 2
    /\ compiles = 2

====
